---- MODULE Spec2Model ----
(***************************************************************************)
(* A model of tools/deploy/imagenet.py: the AverageMeter accumulator, the  *)
(* ProgressMeter batch formatter, the top-k accuracy function, the         *)
(* validation loop and main's export-or-validate pipeline.                  *)
(*                                                                         *)
(* Numbers that Python or torch hold as floats are modelled as exact       *)
(* rationals <<numerator, denominator>> in lowest terms with a positive    *)
(* denominator; floating-point rounding is outside the model.  Strings are *)
(* sequences of one-character strings.                                     *)
(***************************************************************************)
EXTENDS Integers, Sequences, FiniteSets

VARIABLES
    \* ---- AverageMeter exercised on its own
    meter,          \* the AverageMeter object
    calls,          \* the update(val, n) calls made so far, as <<val, n>> pairs
    raised,         \* exception raised by the last call on the meter, or "none"
    \* ---- accuracy() exercised on its own
    output,         \* scores: one row per example, one column per class
    target,         \* the true class (0-based) of each example
    topk,           \* the tuple of k values
    pred,           \* what output.topk returned (indices, one row per example)
    res,            \* the returned list, or the name of the exception raised
    acc_pc,         \* "call" before the call, "returned" after it
    \* ---- ProgressMeter exercised on its own
    num_batches,    \* constructor argument
    progress,       \* <<the ProgressMeter object>>, empty before construction
    shown,          \* the last line display() printed, with its batch argument
    \* ---- main() and validate()
    args,           \* the parsed command line: format and output
    dataset_len,    \* the number of batches the dataset at args.data yields
    pc,             \* where main (or validate, called from it) stands
    made_dirs,      \* os.makedirs has created the output directory
    data_loader,    \* <<the loader>> once get_data_loader returned
    model,          \* <<the TorchModel>> once main's local `model` is assigned
    exported,       \* the loader batches torch.onnx.export has traced
    failure,        \* the exception that ended the run, or "none"
    i,              \* validate: batches enumerated so far
    top1,           \* validate: <<the Acc@1 meter>>
    top5,           \* validate: <<the Acc@5 meter>>
    batch_time,     \* validate: <<the Time meter>>
    displayed,      \* validate: the batch index and the batch part of each progress line
    summary,        \* validate: the final summaries printed
    consumed,       \* the batch indices the loader has handed to validate
    n_updates,      \* update calls made on each of validate's meters
    seen,           \* examples in the batches validate has recorded
    hits1,          \* of these, those whose true class has the highest score
    hits5           \* of these, those whose true class is among the 5 highest

meterVars == <<meter, calls, raised>>
accVars == <<output, target, topk, pred, res, acc_pc>>
progVars == <<num_batches, progress, shown>>
mainVars == <<args, dataset_len, pc, made_dirs, data_loader, model, exported, failure,
              i, top1, top5, batch_time, displayed, summary,
              consumed, n_updates, seen, hits1, hits5>>
vars == <<meterVars, accVars, progVars, mainVars>>

NoValue == "NoValue"

\* the variables of a part that a specification does not exercise
MeterIdle == meter = NoValue /\ calls = NoValue /\ raised = NoValue
AccIdle ==
    /\ output = NoValue /\ target = NoValue /\ topk = NoValue
    /\ pred = NoValue /\ res = NoValue /\ acc_pc = NoValue
ProgIdle == num_batches = NoValue /\ progress = NoValue /\ shown = NoValue
MainIdle ==
    /\ args = NoValue /\ dataset_len = NoValue /\ pc = NoValue
    /\ made_dirs = NoValue /\ data_loader = NoValue /\ model = NoValue
    /\ exported = NoValue /\ failure = NoValue /\ i = NoValue
    /\ top1 = NoValue /\ top5 = NoValue /\ batch_time = NoValue
    /\ displayed = NoValue /\ summary = NoValue /\ consumed = NoValue
    /\ n_updates = NoValue /\ seen = NoValue /\ hits1 = NoValue /\ hits5 = NoValue

\* ------------------------------------------------------------------------
\* Bounds of the model
MaxUpdates == 3       \* update calls on a meter exercised on its own
MaxWeight == 2        \* weights n range over 0..MaxWeight
MaxBatchSize == 2     \* examples in a batch
MaxClasses == 3       \* classes scored when accuracy is exercised on its own
MaxScore == 1         \* scores range over 0..MaxScore
MaxK == 3             \* k values of topk range over 1..MaxK
MaxCells == 6         \* elements of the output tensor (batch size * classes)
MaxTotal == 100       \* num_batches and display's batch range over 0..MaxTotal
MaxBatches == 3       \* batches the data loader yields
MaxElapsed == 1       \* seconds a batch takes range over 1..MaxElapsed
ModelClasses == 6     \* classes the wrapped model scores in validate

\* validate's print_freq default
PrintFreq == 20

\* ------------------------------------------------------------------------
\* Exact arithmetic standing for Python's float arithmetic

Abs(x) == IF x < 0 THEN -x ELSE x

RECURSIVE GCD(_, _)
GCD(a, b) == IF b = 0 THEN a ELSE GCD(b, a % b)

\* the rational n/d (d # 0) in lowest terms with a positive denominator
R(n, d) ==
    LET g == GCD(Abs(n), Abs(d))
        s == IF d < 0 THEN -1 ELSE 1
    IN  <<(s * n) \div g, (s * d) \div g>>

FromInt(n) == <<n, 1>>
RAdd(a, b) == R(a[1] * b[2] + b[1] * a[2], a[2] * b[2])
RSub(a, b) == R(a[1] * b[2] - b[1] * a[2], a[2] * b[2])
RMul(a, b) == R(a[1] * b[1], a[2] * b[2])
\* defined for b # 0 only; callers test for the zero divisor first
RDiv(a, b) == R(a[1] * b[2], a[2] * b[1])

\* ------------------------------------------------------------------------
\* class AverageMeter

AverageMeter(name, fmt) ==
    [name |-> name, fmt |-> fmt,
     val |-> FromInt(0), avg |-> FromInt(0), sum |-> FromInt(0), count |-> 0]

\* update() raises ZeroDivisionError at its last statement when the new count
\* is 0: val, sum and count are already assigned, avg keeps its old value.
updateRaises(self, val, n) == self.count + n = 0

update_unweighted(self, val, n) ==
    LET s == RAdd(self.sum, val)
        c == self.count + n
    IN  [self EXCEPT !.val = val, !.sum = s, !.count = c,
                     !.avg = IF c = 0 THEN @ ELSE RDiv(s, FromInt(c))]

update(self, val, n) ==
    LET s == RAdd(self.sum, RMul(val, FromInt(n)))
        c == self.count + n
    IN  [self EXCEPT !.val = val, !.sum = s, !.count = c,
                     !.avg = IF c = 0 THEN @ ELSE RDiv(s, FromInt(c))]

err_of_sum(self) == RSub(FromInt(100), self.sum)

err(self) == RSub(FromInt(100), self.avg)

\* __str__ renders name, val and avg; the digits of the two floats are not
\* modelled, the entry is kept as the triple that is rendered.
MeterStr(self) == <<self.name, self.val, self.avg>>

\* ------------------------------------------------------------------------
\* The meter exercised on its own: any sequence of update calls

MeterValues == {FromInt(0), R(1, 2), FromInt(100)}

MeterInit ==
    /\ meter = AverageMeter("Acc@1", ":6.2f")
    /\ calls = <<>>
    /\ raised = "none"
    /\ AccIdle /\ ProgIdle /\ MainIdle

MeterUpdate ==
    /\ Len(calls) < MaxUpdates
    /\ \E val \in MeterValues, n \in 0..MaxWeight :
        /\ meter' = update(meter, val, n)
        /\ raised' = IF updateRaises(meter, val, n) THEN "ZeroDivisionError" ELSE "none"
        /\ calls' = Append(calls, <<val, n>>)
    /\ UNCHANGED <<accVars, progVars, mainVars>>

MeterNext == MeterUpdate

MeterSpec == MeterInit /\ [][MeterNext]_vars

\* ------------------------------------------------------------------------
\* Claims about AverageMeter

RECURSIVE SumVW(_)
SumVW(cs) ==
    IF cs = <<>> THEN FromInt(0)
    ELSE RAdd(SumVW(SubSeq(cs, 1, Len(cs) - 1)),
              RMul(cs[Len(cs)][1], FromInt(cs[Len(cs)][2])))

RECURSIVE SumW(_)
SumW(cs) ==
    IF cs = <<>> THEN 0
    ELSE SumW(SubSeq(cs, 1, Len(cs) - 1)) + cs[Len(cs)][2]

\* C1: after any n >= 1 update(v_i, w_i) calls on a fresh meter, sum holds
\* the sum of v_i*w_i, count holds the sum of w_i, and (the weights not
\* summing to zero, where the quotient is undefined) avg is their quotient.
C1_AvgIsWeightedMean ==
    Len(calls) >= 1 =>
        /\ meter.sum = SumVW(calls)
        /\ meter.count = SumW(calls)
        /\ SumW(calls) # 0 =>
              /\ raised = "none"
              /\ meter.avg[1] * SumW(calls) * SumVW(calls)[2]
                    = SumVW(calls)[1] * meter.avg[2]

C1_Witness ==
    /\ Len(calls) = 3
    /\ calls[1][2] # calls[2][2]
    /\ calls[1][1] # calls[2][1]
    /\ meter.avg = R(201, 8)

\* C2: in every reachable state of a meter, fresh or updated, the value read
\* from err and the current avg add up to 100.
C2_ErrIsComplement ==
    LET e == err(meter)
    IN  e[1] * meter.avg[2] + meter.avg[1] * e[2] = 100 * e[2] * meter.avg[2]

C2_Witness ==
    /\ Len(calls) >= 2
    /\ meter.avg = R(1, 2)
    /\ err(meter) = R(199, 2)

\* ------------------------------------------------------------------------
\* accuracy(output, target, topk)

RECURSIVE SeqMax(_)
SeqMax(s) ==
    IF Len(s) = 1 THEN s[1]
    ELSE LET m == SeqMax(Tail(s)) IN IF s[1] >= m THEN s[1] ELSE m

\* Tensor.topk(k, 1, largest=True, sorted=True) on one row: the indices of the
\* k largest scores, largest first.  torch leaves the order of equal scores
\* unspecified, so every order that respects the scores is a possible result.
RECURSIVE smallest_first(_, _, _)
smallest_first(row, remaining, k) ==
    IF k = 0 THEN {<<>>}
    ELSE UNION {
        {<<c>> \o t : t \in smallest_first(row, remaining \ {c}, k - 1)} :
            c \in {c \in remaining : \A d \in remaining : row[d + 1] >= row[c + 1]}}

RECURSIVE topk_row(_, _, _)
topk_row(row, remaining, k) ==
    IF k = 0 THEN {<<>>}
    ELSE UNION {
        {<<c>> \o t : t \in topk_row(row, remaining \ {c}, k - 1)} :
            c \in {c \in remaining : \A d \in remaining : row[d + 1] <= row[c + 1]}}

RECURSIVE topk_rows(_, _, _)
topk_rows(rows, ncls, k) ==
    IF rows = <<>> THEN {<<>>}
    ELSE {<<h>> \o t : h \in topk_row(rows[1], 0..(ncls - 1), k),
                       t \in topk_rows(Tail(rows), ncls, k)}

\* output.topk(maxk, 1, True, True) raises RuntimeError when maxk exceeds the
\* number of classes
topkRaises(out, maxk) == maxk > out.shape[2]

\* pred.t(): rows become columns
Transpose(m, nrows, ncols) ==
    [j \in 1..ncols |-> [b \in 1..nrows |-> m[b][j]]]

\* pred.eq(target.view(1, -1).expand_as(pred))
Correct(predT, tgt) ==
    [j \in 1..Len(predT) |-> [b \in 1..Len(tgt) |-> predT[j][b] = tgt[b]]]

\* correct[:k].view(-1).float().sum(0, keepdim=True)
only_row_k(correct, k) ==
    Cardinality({jb \in {k} \X (1..(IF correct = <<>> THEN 0 ELSE Len(correct[1]))) :
                    k <= Len(correct) /\ correct[jb[1]][jb[2]]})

correct_k(correct, k) ==
    LET rows == IF k <= Len(correct) THEN k ELSE Len(correct)
        cols == IF correct = <<>> THEN 0 ELSE Len(correct[1])
    IN  Cardinality({jb \in (1..rows) \X (1..cols) : correct[jb[1]][jb[2]]})

\* the list res, given the indices topk returned
accuracy_unscaled(pr, tgt, tk) ==
    LET maxk == SeqMax(tk)
        batch_size == Len(tgt)
        predT == Transpose(pr, batch_size, maxk)
        correct == Correct(predT, tgt)
    IN  [x \in 1..Len(tk) |->
            RMul(FromInt(correct_k(correct, tk[x])), FromInt(100))]

accuracy(pr, tgt, tk) ==
    LET maxk == SeqMax(tk)
        batch_size == Len(tgt)
        predT == Transpose(pr, batch_size, maxk)
        correct == Correct(predT, tgt)
    IN  [x \in 1..Len(tk) |->
            RMul(FromInt(correct_k(correct, tk[x])),
                 RDiv(FromInt(100), FromInt(batch_size)))]

\* ------------------------------------------------------------------------
\* accuracy exercised on its own: any scores, targets and topk

Rows(b, c) == [1..b -> [1..c -> 0..MaxScore]]

TopkTuples == {<<k>> : k \in 1..MaxK} \cup {<<k1, k2>> : k1 \in 1..MaxK, k2 \in 1..MaxK}

AccInit ==
    /\ \E b \in 0..MaxBatchSize, c \in 1..MaxClasses :
        /\ b * c <= MaxCells
        /\ \E rows \in Rows(b, c) : output = [shape |-> <<b, c>>, data |-> rows]
        /\ target \in [1..b -> 0..(c - 1)]
    /\ topk \in TopkTuples
    /\ pred = NoValue /\ res = NoValue
    /\ acc_pc = "call"
    /\ MeterIdle /\ ProgIdle /\ MainIdle

\* topk rejects maxk: the exception leaves accuracy
AccTopkRaises ==
    /\ acc_pc = "call"
    /\ topkRaises(output, SeqMax(topk))
    /\ res' = "RuntimeError"
    /\ acc_pc' = "raised"
    /\ UNCHANGED <<output, target, topk, pred, meterVars, progVars, mainVars>>

\* an empty batch: 100.0 / batch_size raises
AccEmptyBatch ==
    /\ acc_pc = "call"
    /\ ~topkRaises(output, SeqMax(topk))
    /\ Len(target) = 0
    /\ pred' = <<>>
    /\ res' = "ZeroDivisionError"
    /\ acc_pc' = "raised"
    /\ UNCHANGED <<output, target, topk, meterVars, progVars, mainVars>>

AccReturn ==
    /\ acc_pc = "call"
    /\ ~topkRaises(output, SeqMax(topk))
    /\ Len(target) > 0
    /\ \E pr \in topk_rows(output.data, output.shape[2], SeqMax(topk)) :
        /\ pred' = pr
        /\ res' = accuracy(pr, target, topk)
    /\ acc_pc' = "returned"
    /\ UNCHANGED <<output, target, topk, meterVars, progVars, mainVars>>

AccNext == AccTopkRaises \/ AccEmptyBatch \/ AccReturn

AccuracySpec == AccInit /\ [][AccNext]_vars

\* ------------------------------------------------------------------------
\* Claims about accuracy

NumClasses == output.shape[2]
BatchSize == output.shape[1]

\* the true class of example b scores strictly above every other class
RankedFirst(b) ==
    \A c \in 0..(NumClasses - 1) :
        c # target[b] => output.data[b][c + 1] < output.data[b][target[b] + 1]

\* the true class of example b scores strictly below every other class
RankedLast(b) ==
    \A c \in 0..(NumClasses - 1) :
        c # target[b] => output.data[b][c + 1] > output.data[b][target[b] + 1]

AllHundred == res \in Seq({FromInt(100)}) /\ Len(res) = Len(topk)

\* C3 as stated: on a non-empty batch whose true classes are all ranked
\* first, accuracy returns 100 for every k of topk.
C3_Original ==
    (acc_pc # "call" /\ BatchSize >= 1 /\ \A b \in 1..BatchSize : RankedFirst(b))
        => AllHundred

\* C3 as amended: on a non-empty batch whose true classes are all ranked
\* first, accuracy returns 100 for every k of topk, provided no k of topk
\* exceeds the number of classes (otherwise topk raises RuntimeError).
C3_AllFirstGivesHundred ==
    (acc_pc # "call" /\ BatchSize >= 1 /\ \A b \in 1..BatchSize : RankedFirst(b))
        => IF SeqMax(topk) <= NumClasses THEN AllHundred ELSE res = "RuntimeError"

C3_Witness ==
    /\ acc_pc = "returned"
    /\ BatchSize = 2 /\ NumClasses = 3
    /\ \A b \in 1..BatchSize : RankedFirst(b)
    /\ target[1] # target[2]
    /\ topk = <<3, 2>>
    /\ res = <<FromInt(100), FromInt(100)>>

\* C4 as stated: on a non-empty batch whose true classes are all ranked
\* last, accuracy with topk = (1,) returns 0.
C4_Original ==
    (acc_pc # "call" /\ BatchSize >= 1 /\ topk = <<1>>
        /\ \A b \in 1..BatchSize : RankedLast(b))
        => res = <<FromInt(0)>>

\* C4 as amended: with at least two classes, on a non-empty batch whose true
\* classes are all ranked last, accuracy with topk = (1,) returns 0.
C4_AllLastGivesZero ==
    (acc_pc # "call" /\ BatchSize >= 1 /\ topk = <<1>> /\ NumClasses >= 2
        /\ \A b \in 1..BatchSize : RankedLast(b))
        => res = <<FromInt(0)>>

C4_Witness ==
    /\ acc_pc = "returned"
    /\ BatchSize = 2 /\ NumClasses = 3
    /\ topk = <<1>>
    /\ \A b \in 1..BatchSize : RankedLast(b)
    /\ target[1] # target[2]
    /\ res = <<FromInt(0)>>

\* ------------------------------------------------------------------------
\* class ProgressMeter

DigitChars == <<"0", "1", "2", "3", "4", "5", "6", "7", "8", "9">>

\* str(n) for an int n >= 0
RECURSIVE str(_)
str(n) ==
    IF n < 10 THEN <<DigitChars[n + 1]>>
    ELSE str(n \div 10) \o <<DigitChars[(n % 10) + 1]>>

DigitValue(ch) == CHOOSE d \in 0..9 : DigitChars[d + 1] = ch

\* int() of the width digits of a format spec
RECURSIVE ParseWidth(_)
ParseWidth(ds) ==
    IF ds = <<>> THEN 0
    ELSE 10 * ParseWidth(SubSeq(ds, 1, Len(ds) - 1)) + DigitValue(ds[Len(ds)])

Repeat(ch, n) == [x \in 1..n |-> ch]

\* format(n, spec) for a spec "<width>d": right-aligned in width; the fill is
\* a space, or "0" when the width is written with a leading zero
format_spec_zero_fill(spec, n) ==
    LET digits == SubSeq(spec, 1, Len(spec) - 1)
        width == ParseWidth(digits)
        body == str(n)
    IN  Repeat("0", width - Len(body)) \o body

format_spec(spec, n) ==
    LET digits == SubSeq(spec, 1, Len(spec) - 1)
        zero == digits # <<>> /\ digits[1] = "0"
        width == ParseWidth(digits)
        body == str(n)
    IN  Repeat(IF zero THEN "0" ELSE " ", width - Len(body)) \o body

\* template.format(n) for a template whose replacement fields are "{:<spec>}"
RECURSIVE format(_, _)
format(template, n) ==
    IF template = <<>> THEN <<>>
    ELSE IF template[1] = "{"
    THEN LET close == CHOOSE x \in 1..Len(template) :
                          /\ template[x] = "}"
                          /\ \A y \in 1..(x - 1) : template[y] # "}"
         IN  format_spec(SubSeq(template, 3, close - 1), n)
                 \o format(SubSeq(template, close + 1, Len(template)), n)
    ELSE <<template[1]>> \o format(Tail(template), n)

_get_batch_fmt_str(n) ==
    LET num_digits == Len(str(n \div 1))
        fmt == <<"{", ":">> \o str(num_digits) \o <<"d", "}">>
    IN  <<"[">> \o fmt \o <<"/">> \o format(fmt, n) \o <<"]">>

ProgressMeter(n, meters, prefix) ==
    [batch_fmt_str |-> _get_batch_fmt_str(n), meters |-> meters, prefix |-> prefix]

\* the entries display() joins with tabs and prints after the time of day
display(self, batch) ==
    <<self.prefix \o format(self.batch_fmt_str, batch)>>
        \o [x \in 1..Len(self.meters) |-> MeterStr(self.meters[x])]

\* ------------------------------------------------------------------------
\* ProgressMeter exercised on its own

ProgInit ==
    /\ num_batches \in 0..MaxTotal
    /\ progress = <<>>
    /\ shown = <<>>
    /\ MeterIdle /\ AccIdle /\ MainIdle

ProgConstruct ==
    /\ progress = <<>>
    /\ progress' = <<ProgressMeter(num_batches, <<AverageMeter("Time", ":6.3f")>>, <<>>)>>
    /\ UNCHANGED <<num_batches, shown, meterVars, accVars, mainVars>>

\* shown keeps the last line printed and the batch it was printed for
ProgDisplay ==
    /\ progress # <<>>
    /\ \E batch \in 0..MaxTotal :
        shown' = <<[batch |-> batch, entries |-> display(progress[1], batch)]>>
    /\ UNCHANGED <<num_batches, progress, meterVars, accVars, mainVars>>

ProgNext == ProgConstruct \/ ProgDisplay

ProgressSpec == ProgInit /\ [][ProgNext]_vars

\* ------------------------------------------------------------------------
\* Claims about ProgressMeter

\* the number of decimal digits of n >= 0
NumDigits(n) == CHOOSE d \in 1..10 : n < 10^d /\ (d = 1 \/ n >= 10^(d - 1))

\* the value of a sequence of digit characters, -1 if one is no digit
RECURSIVE Value(_)
Value(ds) ==
    IF ds = <<>> THEN 0
    ELSE LET ch == ds[Len(ds)]
             rest == Value(SubSeq(ds, 1, Len(ds) - 1))
         IN  IF rest < 0 \/ ~(\E d \in 1..10 : DigitChars[d] = ch) THEN -1
             ELSE 10 * rest + DigitValue(ch)

\* line is "[" + b padded on the left with fill to the digit width of n + "/"
\* + n + "]"
RendersBatch(line, fill, b, n) ==
    LET wn == NumDigits(n)
        wb == NumDigits(b)
        w  == IF wb > wn THEN wb ELSE wn
    IN  /\ Len(line) = w + wn + 3
        /\ line[1] = "[" /\ line[w + 2] = "/" /\ line[Len(line)] = "]"
        /\ \A x \in 2..(1 + w - wb) : line[x] = fill
        /\ Value(SubSeq(line, 2 + w - wb, w + 1)) = b
        /\ Value(SubSeq(line, w + 3, w + 2 + wn)) = n

Formats == {"torch", "onnx", "tensorrt"}

\* main builds the torch model for these formats only
builds_model_always(fmt) == TRUE

builds_model(fmt) == fmt = "torch" \/ fmt = "onnx"

\* the `return` that follows torch.onnx.export
AfterExport_fallthrough == "validate_call"

AfterExport == "done"

\* for i, data in enumerate(val_loader): is there a batch number idx?
has_next_inclusive(loader, idx) == idx <= loader.len

has_next(loader, idx) == idx < loader.len

\* the scores the model gives one example: one score per class, no two equal;
\* class 0 scores highest, the last class lowest
ModelRows == {[c \in 1..ModelClasses |-> ModelClasses - c]}

\* the true classes of the examples: ranked 1st, 5th and 6th by these scores
Targets == {0, 4, 5}

\* a batch: the true classes of its examples, and the scores of the model
Batches ==
    UNION {[target : [1..b -> Targets], rows : [1..b -> ModelRows]] :
              b \in 1..MaxBatchSize}

\* classes that score strictly above the true class
Above(row, t) == Cardinality({c \in 1..Len(row) : row[c] > row[t + 1]})

Hits(batch, k) ==
    Cardinality({b \in 1..Len(batch.target) : Above(batch.rows[b], batch.target[b]) < k})

\* what the loop body computes for a batch before it touches the meters:
\* images.size(0) and the two values accuracy(output, target, topk=(1, 5))
\* returns; with them, for the claims, the examples of the batch whose true
\* class is among the 1 and the 5 highest scores
BatchRuns ==
    UNION {{[size |-> Len(batch.target),
             acc |-> accuracy(pr, batch.target, <<1, 5>>),
             hits1 |-> Hits(batch, 1),
             hits5 |-> Hits(batch, 5)] :
                pr \in topk_rows(batch.rows, ModelClasses, 5)} : batch \in Batches}

Init ==
    /\ args \in [format : Formats, output : {"", "./output"}]
    /\ dataset_len \in 0..MaxBatches
    /\ pc = "makedirs"
    /\ made_dirs = FALSE
    /\ data_loader = <<>>
    /\ model = <<>>
    /\ exported = <<>>
    /\ failure = "none"
    /\ i = 0
    /\ top1 = <<>> /\ top5 = <<>> /\ batch_time = <<>>
    /\ displayed = <<>>
    /\ summary = <<>>
    /\ consumed = <<>>
    /\ n_updates = [top1 |-> 0, top5 |-> 0, batch_time |-> 0]
    /\ seen = 0 /\ hits1 = 0 /\ hits5 = 0
    /\ MeterIdle /\ AccIdle /\ ProgIdle

idleVars == <<meterVars, accVars, progVars>>
validateVars == <<i, top1, top5, batch_time, displayed, summary,
                  consumed, n_updates, seen, hits1, hits5>>

\* an exception nobody catches ends the run
Abort(exc) == pc' = "aborted" /\ failure' = exc

\* if args.output: os.makedirs(args.output, exist_ok=True)
MakeDirs ==
    /\ pc = "makedirs"
    /\ made_dirs' = (args.output # "")
    /\ pc' = "get_data_loader"
    /\ UNCHANGED <<args, dataset_len, data_loader, model, exported, failure,
                   validateVars, idleVars>>

MakeDirsFails ==
    /\ pc = "makedirs"
    /\ args.output # ""
    /\ Abort("OSError")
    /\ UNCHANGED <<args, dataset_len, made_dirs, data_loader, model, exported,
                   validateVars, idleVars>>

\* data_loader = get_data_loader(...), then the test of args.format
GetDataLoader ==
    /\ pc = "get_data_loader"
    /\ data_loader' = <<[len |-> dataset_len]>>
    /\ pc' = IF builds_model(args.format) THEN "build_model" ELSE "validate_call"
    /\ UNCHANGED <<args, dataset_len, made_dirs, model, exported, failure,
                   validateVars, idleVars>>

GetDataLoaderFails ==
    /\ pc = "get_data_loader"
    /\ Abort("DatasetError")
    /\ UNCHANGED <<args, dataset_len, made_dirs, data_loader, model, exported,
                   validateVars, idleVars>>

\* resnet18(pretrained=True), .cuda(), model = TorchModel(torch_model)
BuildModel ==
    /\ pc = "build_model"
    /\ model' = <<"TorchModel">>
    /\ pc' = IF args.format = "onnx" THEN "export" ELSE "validate_call"
    /\ UNCHANGED <<args, dataset_len, made_dirs, data_loader, exported, failure,
                   validateVars, idleVars>>

BuildModelFails ==
    /\ pc = "build_model"
    /\ Abort("ModelLoadError")
    /\ UNCHANGED <<args, dataset_len, made_dirs, data_loader, model, exported,
                   validateVars, idleVars>>

\* data = next(iter(data_loader)); convert_inputs; torch.onnx.export; return
Export ==
    /\ pc = "export"
    /\ has_next(data_loader[1], 0)
    /\ exported' = Append(exported, 0)
    /\ pc' = AfterExport
    /\ UNCHANGED <<args, dataset_len, made_dirs, data_loader, model, failure,
                   validateVars, idleVars>>

\* next() on the iterator of an empty loader
ExportNoBatch ==
    /\ pc = "export"
    /\ ~has_next(data_loader[1], 0)
    /\ Abort("StopIteration")
    /\ UNCHANGED <<args, dataset_len, made_dirs, data_loader, model, exported,
                   validateVars, idleVars>>

\* the loader, images.cuda() or the export itself raises
ExportFails ==
    /\ pc = "export"
    /\ Abort("ExportError")
    /\ UNCHANGED <<args, dataset_len, made_dirs, data_loader, model, exported,
                   validateVars, idleVars>>

\* validate(data_loader, model) with `model` never assigned
ValidateCallUnbound ==
    /\ pc = "validate_call"
    /\ model = <<>>
    /\ Abort("UnboundLocalError")
    /\ UNCHANGED <<args, dataset_len, made_dirs, data_loader, model, exported,
                   validateVars, idleVars>>

\* validate's prologue: the three meters, the progress meter, model.eval()
ValidateEnter ==
    /\ pc = "validate_call"
    /\ model # <<>>
    /\ batch_time' = <<AverageMeter("Time", ":6.3f")>>
    /\ top1' = <<AverageMeter("Acc@1", ":6.2f")>>
    /\ top5' = <<AverageMeter("Acc@5", ":6.2f")>>
    /\ i' = 0
    /\ pc' = "loop"
    /\ UNCHANGED <<args, dataset_len, made_dirs, data_loader, model, exported, failure,
                   displayed, summary, consumed, n_updates, seen, hits1, hits5,
                   idleVars>>

\* one pass of the loop body without a failure, on a batch with the results run
ValidateBatch(run, elapsed) ==
    /\ pc = "loop"
    /\ has_next(data_loader[1], i)
    /\ consumed' = Append(consumed, i)
    /\ \E new1 \in {update(top1[1], run.acc[1], run.size)} :
       \E new5 \in {update(top5[1], run.acc[2], run.size)} :
       \E newt \in {update(batch_time[1], FromInt(elapsed), 1)} :
            /\ top1' = <<new1>>
            /\ top5' = <<new5>>
            /\ batch_time' = <<newt>>
            /\ displayed' =
                  IF i % PrintFreq = 0
                  THEN Append(displayed,
                              [batch |-> i,
                               line |-> display(ProgressMeter(data_loader[1].len,
                                                    <<newt, new1, new5>>, <<>>), i)[1]])
                  ELSE displayed
    /\ n_updates' = [top1 |-> n_updates.top1 + 1, top5 |-> n_updates.top5 + 1,
                     batch_time |-> n_updates.batch_time + 1]
    /\ seen' = seen + run.size
    /\ hits1' = hits1 + run.hits1
    /\ hits5' = hits5 + run.hits5
    /\ i' = i + 1
    /\ UNCHANGED <<pc, args, dataset_len, made_dirs, data_loader, model, exported,
                   failure, summary, idleVars>>

ValidateStep == \E run \in BatchRuns, elapsed \in 1..MaxElapsed : ValidateBatch(run, elapsed)

\* the loader raises instead of yielding batch i
LoaderFails ==
    /\ pc = "loop"
    /\ has_next(data_loader[1], i)
    /\ Abort("LoaderError")
    /\ UNCHANGED <<args, dataset_len, made_dirs, data_loader, model, exported,
                   validateVars, idleVars>>

\* batch i is fetched, then t.cuda() or model(data) raises
ModelFails_continue ==
    /\ pc = "loop"
    /\ has_next(data_loader[1], i)
    /\ consumed' = Append(consumed, i)
    /\ failure' = "ModelError"
    /\ i' = i + 1
    /\ UNCHANGED <<pc, args, dataset_len, made_dirs, data_loader, model, exported,
                   top1, top5, batch_time, displayed, summary,
                   n_updates, seen, hits1, hits5, idleVars>>

ModelFails ==
    /\ pc = "loop"
    /\ has_next(data_loader[1], i)
    /\ consumed' = Append(consumed, i)
    /\ Abort("ModelError")
    /\ UNCHANGED <<args, dataset_len, made_dirs, data_loader, model, exported,
                   i, top1, top5, batch_time, displayed, summary,
                   n_updates, seen, hits1, hits5, idleVars>>

\* the loop is over: the two summary lines, then validate and main return
Summary ==
    /\ pc = "loop"
    /\ ~has_next(data_loader[1], i)
    /\ summary' = Append(summary, [acc1 |-> top1[1].avg, acc5 |-> top5[1].avg,
                                   err1 |-> err(top1[1]), err5 |-> err(top5[1])])
    /\ pc' = "done"
    /\ UNCHANGED <<args, dataset_len, made_dirs, data_loader, model, exported, failure,
                   i, top1, top5, batch_time, displayed,
                   consumed, n_updates, seen, hits1, hits5, idleVars>>

Next ==
    \/ MakeDirs \/ MakeDirsFails
    \/ GetDataLoader \/ GetDataLoaderFails
    \/ BuildModel \/ BuildModelFails
    \/ Export \/ ExportNoBatch \/ ExportFails
    \/ ValidateCallUnbound \/ ValidateEnter
    \/ ValidateStep \/ LoaderFails \/ ModelFails
    \/ Summary

Spec == Init /\ [][Next]_vars

\* ------------------------------------------------------------------------
\* Claims about validate and main

Entered == top1 # <<>>
Terminated == pc \in {"done", "aborted"}
UpdatesAre(n) == n_updates = [top1 |-> n, top5 |-> n, batch_time |-> n]

C6_Inv ==
    /\ \A k \in 1..Len(consumed) : consumed[k] = k - 1
    /\ Len(consumed) <= dataset_len
    /\ i <= dataset_len
    /\ Len(summary) <= 1
    /\ (Entered /\ failure = "none") => (UpdatesAre(i) /\ Len(consumed) = i)
    /\ summary # <<>> =>
          (failure = "none" /\ Len(consumed) = dataset_len /\ UpdatesAre(dataset_len))
    /\ (Entered /\ pc = "done") => Len(summary) = 1
    /\ pc = "aborted" => failure # "none"

\* where main stands, in the order its statements run
Stage ==
    CASE pc = "makedirs" -> 0
      [] pc = "get_data_loader" -> 1
      [] pc = "build_model" -> 2
      [] pc \in {"export", "validate_call"} -> 3
      [] pc = "loop" -> 4
      [] pc \in {"done", "aborted"} -> 5

\* every step moves main to a later statement or validate to the next batch
C6_Advances ==
    \/ Stage' > Stage
    \/ (Stage' = Stage /\ i < dataset_len /\ i' = i + 1)

\* C6: with a loader of N batches and no failure, validate ends after one
\* pass: it consumes batches 0..N-1 once each and in order, updates Acc@1,
\* Acc@5 and Time once per batch, and prints the summary once, after the last
\* batch; every step advances towards the end, so that no run goes on forever.
C6_OnePass ==
    /\ []C6_Inv
    /\ [][C6_Advances]_vars

C6_Witness ==
    /\ pc = "done"
    /\ dataset_len = 3
    /\ consumed = <<0, 1, 2>>
    /\ UpdatesAre(3)
    /\ Len(summary) = 1
    /\ seen = 5

\* C7: export and validation exclude each other; with format onnx the export
\* traces the first batch of the loader and the run then ends, validate never
\* entered; with format torch validate runs and nothing is exported.
C7_ExportXorValidate ==
    /\ ~(exported # <<>> /\ (Entered \/ consumed # <<>>))
    /\ args.format = "onnx" =>
          /\ ~Entered /\ consumed = <<>> /\ summary = <<>>
          /\ exported \in {<<>>, <<0>>}
          /\ (pc = "done" <=> exported = <<0>>)
    /\ args.format = "torch" =>
          /\ exported = <<>>
          /\ (pc = "done" => (Entered /\ Len(summary) = 1))

C7_Witness ==
    /\ args.format = "onnx"
    /\ pc = "done"
    /\ exported = <<0>>
    /\ dataset_len = 3
    /\ ~Entered

FailedInValidate == failure \in {"LoaderError", "ModelError"}

C8_Inv ==
    FailedInValidate =>
        /\ pc = "aborted"
        /\ summary = <<>>
        /\ UpdatesAre(i)
        /\ top1[1].count = seen /\ top5[1].count = seen /\ batch_time[1].count = i
        /\ Len(consumed) \in {i, i + 1}

\* C8: when the loader or the model call fails at batch i, the run aborts:
\* the meters hold the updates of batches 0..i-1 only, the summary is not
\* printed, and from then on no batch is consumed, no meter is updated and
\* nothing is printed.
C8_FailureAborts ==
    /\ []C8_Inv
    /\ [][FailedInValidate =>
            UNCHANGED <<consumed, n_updates, top1, top5, batch_time, summary,
                        displayed, i>>]_vars

C8_Witness ==
    /\ failure = "ModelError"
    /\ pc = "aborted"
    /\ dataset_len = 3
    /\ i = 1
    /\ consumed = <<0, 1>>
    /\ UpdatesAre(1)

\* C9: after validate has recorded batches of any sizes, the avg of Acc@k is
\* 100 * (examples whose true class is among the k highest scores) / (examples
\* seen), whatever the partition into batches.
C9_AvgOverExamples ==
    (Entered /\ seen > 0) =>
        /\ top1[1].avg = R(100 * hits1, seen)
        /\ top5[1].avg = R(100 * hits5, seen)

C9_Witness ==
    /\ i = 2
    /\ seen = 3
    /\ hits1 = 1 /\ hits5 = 2
    /\ top1[1].avg = R(100, 3)
    /\ top5[1].avg = R(200, 3)
    /\ top1[1].val # top1[1].avg

ReachedValidateCall == pc = "validate_call" \/ failure = "UnboundLocalError"

C10_NoModelAbort ==
    args.format = "tensorrt" =>
        /\ model = <<>> /\ exported = <<>>
        /\ ~Entered /\ consumed = <<>> /\ summary = <<>>
        /\ pc # "done"
        /\ ReachedValidateCall => data_loader # <<>>
        /\ failure = "UnboundLocalError" => pc = "aborted"
        /\ (pc = "aborted" /\ data_loader # <<>>) => failure = "UnboundLocalError"

\* C10 as stated: with format tensorrt main creates the output directory and
\* the loader, builds no model, exports nothing, and aborts at the validate
\* call, no batch validated and no summary printed.
C10_Original ==
    /\ C10_NoModelAbort
    /\ (args.format = "tensorrt" /\ ReachedValidateCall) => made_dirs

\* C10 as amended: the same, except that the output directory is created
\* only when the --output argument is not empty.
C10_TensorrtAborts ==
    /\ C10_NoModelAbort
    /\ (args.format = "tensorrt" /\ ReachedValidateCall) =>
            (made_dirs <=> args.output # "")

C10_Witness ==
    /\ args.format = "tensorrt"
    /\ failure = "UnboundLocalError"
    /\ pc = "aborted"
    /\ made_dirs
    /\ dataset_len = 3

====
